---- MODULE Spec2Model ----
(***************************************************************************)
(* Product catalogue API (app/product): the product-create validation      *)
(* rules of ProductCreateSerializer, and the request handlers               *)
(* ProductAPIView (GET product-list, behind cache_page and the              *)
(* 'product_list' cache key) and ProductCreateView (POST product-create).   *)
(*                                                                         *)
(* Text values are sequences of one-character strings, so that strip(),    *)
(* len() and float() are computed character by character.                  *)
(* Time is counted in minutes.                                             *)
(***************************************************************************)
EXTENDS Integers, Sequences, FiniteSets, TLC

VARIABLES
    vin,        \* validation harness: the operation and payload under test
    vout,       \* validation harness: what the operation returned
    db,         \* Entity Store: the Product and ProductImage rows, in commit order
    cache,      \* django.core.cache.cache: key -> entry
    now,        \* the clock, in minutes
    proc,       \* per request slot: the running handler's position and locals
    resp,       \* the last response sent, until the next request arrives
    submitted,  \* history: product id -> the images its POST submitted
    invalidated,\* history: ids of products whose POST ran cache.delete
    last201     \* history: id created by the request that finished last (0: none)

vars == <<vin, vout, db, cache, now, proc, resp, submitted, invalidated, last201>>

reqvars == <<db, cache, now, proc, resp, submitted, invalidated, last201>>

(***************************************************************************)
(* Bounds of the model.                                                    *)
(***************************************************************************)

\* Longest price string enumerated over PriceAlphabet.
MaxPriceLen == 3

\* Images submitted with one product-create request.
MaxImages == 2

\* Products created in one run.
MaxProducts == 1

\* Last minute of the clock.
MaxTime == 6

(***************************************************************************)
(* str helpers.  A character is a one-character string when it is printable *)
(* ASCII or one of \t, \n, \r, \f, and is written "U+hhhh" (its code       *)
(* point) otherwise.                                                       *)
(***************************************************************************)

\* The characters with a decimal digit value (Unicode category Nd), by
\* value: DecimalDigits[v + 1] are the characters of value v.
DecimalDigits ==
    <<{"0", "U+0660", "U+06F0", "U+07C0", "U+0966", "U+09E6", "U+0A66",
      "U+0AE6", "U+0B66", "U+0BE6", "U+0C66", "U+0CE6", "U+0D66", "U+0DE6",
      "U+0E50", "U+0ED0", "U+0F20", "U+1040", "U+1090", "U+17E0", "U+1810",
      "U+1946", "U+19D0", "U+1A80", "U+1A90", "U+1B50", "U+1BB0", "U+1C40",
      "U+1C50", "U+A620", "U+A8D0", "U+A900", "U+A9D0", "U+A9F0", "U+AA50",
      "U+ABF0", "U+FF10", "U+104A0", "U+10D30", "U+11066", "U+110F0",
      "U+11136", "U+111D0", "U+112F0", "U+11450", "U+114D0", "U+11650",
      "U+116C0", "U+11730", "U+118E0", "U+11950", "U+11C50", "U+11D50",
      "U+11DA0", "U+16A60", "U+16AC0", "U+16B50", "U+1D7CE", "U+1D7D8",
      "U+1D7E2", "U+1D7EC", "U+1D7F6", "U+1E140", "U+1E2F0", "U+1E950",
      "U+1FBF0"},
      {"1", "U+0661", "U+06F1", "U+07C1", "U+0967", "U+09E7", "U+0A67",
      "U+0AE7", "U+0B67", "U+0BE7", "U+0C67", "U+0CE7", "U+0D67", "U+0DE7",
      "U+0E51", "U+0ED1", "U+0F21", "U+1041", "U+1091", "U+17E1", "U+1811",
      "U+1947", "U+19D1", "U+1A81", "U+1A91", "U+1B51", "U+1BB1", "U+1C41",
      "U+1C51", "U+A621", "U+A8D1", "U+A901", "U+A9D1", "U+A9F1", "U+AA51",
      "U+ABF1", "U+FF11", "U+104A1", "U+10D31", "U+11067", "U+110F1",
      "U+11137", "U+111D1", "U+112F1", "U+11451", "U+114D1", "U+11651",
      "U+116C1", "U+11731", "U+118E1", "U+11951", "U+11C51", "U+11D51",
      "U+11DA1", "U+16A61", "U+16AC1", "U+16B51", "U+1D7CF", "U+1D7D9",
      "U+1D7E3", "U+1D7ED", "U+1D7F7", "U+1E141", "U+1E2F1", "U+1E951",
      "U+1FBF1"},
      {"2", "U+0662", "U+06F2", "U+07C2", "U+0968", "U+09E8", "U+0A68",
      "U+0AE8", "U+0B68", "U+0BE8", "U+0C68", "U+0CE8", "U+0D68", "U+0DE8",
      "U+0E52", "U+0ED2", "U+0F22", "U+1042", "U+1092", "U+17E2", "U+1812",
      "U+1948", "U+19D2", "U+1A82", "U+1A92", "U+1B52", "U+1BB2", "U+1C42",
      "U+1C52", "U+A622", "U+A8D2", "U+A902", "U+A9D2", "U+A9F2", "U+AA52",
      "U+ABF2", "U+FF12", "U+104A2", "U+10D32", "U+11068", "U+110F2",
      "U+11138", "U+111D2", "U+112F2", "U+11452", "U+114D2", "U+11652",
      "U+116C2", "U+11732", "U+118E2", "U+11952", "U+11C52", "U+11D52",
      "U+11DA2", "U+16A62", "U+16AC2", "U+16B52", "U+1D7D0", "U+1D7DA",
      "U+1D7E4", "U+1D7EE", "U+1D7F8", "U+1E142", "U+1E2F2", "U+1E952",
      "U+1FBF2"},
      {"3", "U+0663", "U+06F3", "U+07C3", "U+0969", "U+09E9", "U+0A69",
      "U+0AE9", "U+0B69", "U+0BE9", "U+0C69", "U+0CE9", "U+0D69", "U+0DE9",
      "U+0E53", "U+0ED3", "U+0F23", "U+1043", "U+1093", "U+17E3", "U+1813",
      "U+1949", "U+19D3", "U+1A83", "U+1A93", "U+1B53", "U+1BB3", "U+1C43",
      "U+1C53", "U+A623", "U+A8D3", "U+A903", "U+A9D3", "U+A9F3", "U+AA53",
      "U+ABF3", "U+FF13", "U+104A3", "U+10D33", "U+11069", "U+110F3",
      "U+11139", "U+111D3", "U+112F3", "U+11453", "U+114D3", "U+11653",
      "U+116C3", "U+11733", "U+118E3", "U+11953", "U+11C53", "U+11D53",
      "U+11DA3", "U+16A63", "U+16AC3", "U+16B53", "U+1D7D1", "U+1D7DB",
      "U+1D7E5", "U+1D7EF", "U+1D7F9", "U+1E143", "U+1E2F3", "U+1E953",
      "U+1FBF3"},
      {"4", "U+0664", "U+06F4", "U+07C4", "U+096A", "U+09EA", "U+0A6A",
      "U+0AEA", "U+0B6A", "U+0BEA", "U+0C6A", "U+0CEA", "U+0D6A", "U+0DEA",
      "U+0E54", "U+0ED4", "U+0F24", "U+1044", "U+1094", "U+17E4", "U+1814",
      "U+194A", "U+19D4", "U+1A84", "U+1A94", "U+1B54", "U+1BB4", "U+1C44",
      "U+1C54", "U+A624", "U+A8D4", "U+A904", "U+A9D4", "U+A9F4", "U+AA54",
      "U+ABF4", "U+FF14", "U+104A4", "U+10D34", "U+1106A", "U+110F4",
      "U+1113A", "U+111D4", "U+112F4", "U+11454", "U+114D4", "U+11654",
      "U+116C4", "U+11734", "U+118E4", "U+11954", "U+11C54", "U+11D54",
      "U+11DA4", "U+16A64", "U+16AC4", "U+16B54", "U+1D7D2", "U+1D7DC",
      "U+1D7E6", "U+1D7F0", "U+1D7FA", "U+1E144", "U+1E2F4", "U+1E954",
      "U+1FBF4"},
      {"5", "U+0665", "U+06F5", "U+07C5", "U+096B", "U+09EB", "U+0A6B",
      "U+0AEB", "U+0B6B", "U+0BEB", "U+0C6B", "U+0CEB", "U+0D6B", "U+0DEB",
      "U+0E55", "U+0ED5", "U+0F25", "U+1045", "U+1095", "U+17E5", "U+1815",
      "U+194B", "U+19D5", "U+1A85", "U+1A95", "U+1B55", "U+1BB5", "U+1C45",
      "U+1C55", "U+A625", "U+A8D5", "U+A905", "U+A9D5", "U+A9F5", "U+AA55",
      "U+ABF5", "U+FF15", "U+104A5", "U+10D35", "U+1106B", "U+110F5",
      "U+1113B", "U+111D5", "U+112F5", "U+11455", "U+114D5", "U+11655",
      "U+116C5", "U+11735", "U+118E5", "U+11955", "U+11C55", "U+11D55",
      "U+11DA5", "U+16A65", "U+16AC5", "U+16B55", "U+1D7D3", "U+1D7DD",
      "U+1D7E7", "U+1D7F1", "U+1D7FB", "U+1E145", "U+1E2F5", "U+1E955",
      "U+1FBF5"},
      {"6", "U+0666", "U+06F6", "U+07C6", "U+096C", "U+09EC", "U+0A6C",
      "U+0AEC", "U+0B6C", "U+0BEC", "U+0C6C", "U+0CEC", "U+0D6C", "U+0DEC",
      "U+0E56", "U+0ED6", "U+0F26", "U+1046", "U+1096", "U+17E6", "U+1816",
      "U+194C", "U+19D6", "U+1A86", "U+1A96", "U+1B56", "U+1BB6", "U+1C46",
      "U+1C56", "U+A626", "U+A8D6", "U+A906", "U+A9D6", "U+A9F6", "U+AA56",
      "U+ABF6", "U+FF16", "U+104A6", "U+10D36", "U+1106C", "U+110F6",
      "U+1113C", "U+111D6", "U+112F6", "U+11456", "U+114D6", "U+11656",
      "U+116C6", "U+11736", "U+118E6", "U+11956", "U+11C56", "U+11D56",
      "U+11DA6", "U+16A66", "U+16AC6", "U+16B56", "U+1D7D4", "U+1D7DE",
      "U+1D7E8", "U+1D7F2", "U+1D7FC", "U+1E146", "U+1E2F6", "U+1E956",
      "U+1FBF6"},
      {"7", "U+0667", "U+06F7", "U+07C7", "U+096D", "U+09ED", "U+0A6D",
      "U+0AED", "U+0B6D", "U+0BED", "U+0C6D", "U+0CED", "U+0D6D", "U+0DED",
      "U+0E57", "U+0ED7", "U+0F27", "U+1047", "U+1097", "U+17E7", "U+1817",
      "U+194D", "U+19D7", "U+1A87", "U+1A97", "U+1B57", "U+1BB7", "U+1C47",
      "U+1C57", "U+A627", "U+A8D7", "U+A907", "U+A9D7", "U+A9F7", "U+AA57",
      "U+ABF7", "U+FF17", "U+104A7", "U+10D37", "U+1106D", "U+110F7",
      "U+1113D", "U+111D7", "U+112F7", "U+11457", "U+114D7", "U+11657",
      "U+116C7", "U+11737", "U+118E7", "U+11957", "U+11C57", "U+11D57",
      "U+11DA7", "U+16A67", "U+16AC7", "U+16B57", "U+1D7D5", "U+1D7DF",
      "U+1D7E9", "U+1D7F3", "U+1D7FD", "U+1E147", "U+1E2F7", "U+1E957",
      "U+1FBF7"},
      {"8", "U+0668", "U+06F8", "U+07C8", "U+096E", "U+09EE", "U+0A6E",
      "U+0AEE", "U+0B6E", "U+0BEE", "U+0C6E", "U+0CEE", "U+0D6E", "U+0DEE",
      "U+0E58", "U+0ED8", "U+0F28", "U+1048", "U+1098", "U+17E8", "U+1818",
      "U+194E", "U+19D8", "U+1A88", "U+1A98", "U+1B58", "U+1BB8", "U+1C48",
      "U+1C58", "U+A628", "U+A8D8", "U+A908", "U+A9D8", "U+A9F8", "U+AA58",
      "U+ABF8", "U+FF18", "U+104A8", "U+10D38", "U+1106E", "U+110F8",
      "U+1113E", "U+111D8", "U+112F8", "U+11458", "U+114D8", "U+11658",
      "U+116C8", "U+11738", "U+118E8", "U+11958", "U+11C58", "U+11D58",
      "U+11DA8", "U+16A68", "U+16AC8", "U+16B58", "U+1D7D6", "U+1D7E0",
      "U+1D7EA", "U+1D7F4", "U+1D7FE", "U+1E148", "U+1E2F8", "U+1E958",
      "U+1FBF8"},
      {"9", "U+0669", "U+06F9", "U+07C9", "U+096F", "U+09EF", "U+0A6F",
      "U+0AEF", "U+0B6F", "U+0BEF", "U+0C6F", "U+0CEF", "U+0D6F", "U+0DEF",
      "U+0E59", "U+0ED9", "U+0F29", "U+1049", "U+1099", "U+17E9", "U+1819",
      "U+194F", "U+19D9", "U+1A89", "U+1A99", "U+1B59", "U+1BB9", "U+1C49",
      "U+1C59", "U+A629", "U+A8D9", "U+A909", "U+A9D9", "U+A9F9", "U+AA59",
      "U+ABF9", "U+FF19", "U+104A9", "U+10D39", "U+1106F", "U+110F9",
      "U+1113F", "U+111D9", "U+112F9", "U+11459", "U+114D9", "U+11659",
      "U+116C9", "U+11739", "U+118E9", "U+11959", "U+11C59", "U+11D59",
      "U+11DA9", "U+16A69", "U+16AC9", "U+16B59", "U+1D7D7", "U+1D7E1",
      "U+1D7EB", "U+1D7F5", "U+1D7FF", "U+1E149", "U+1E2F9", "U+1E959",
      "U+1FBF9"}>>

Digits == UNION {DecimalDigits[i] : i \in 1..10}

\* The characters str.strip() removes (str.isspace).
Whitespace ==
    {"\t", "\n", "U+000B", "\f", "\r", "U+001C", "U+001D", "U+001E",
     "U+001F", " ", "U+0085", "U+00A0", "U+1680", "U+2000", "U+2001",
     "U+2002", "U+2003", "U+2004", "U+2005", "U+2006", "U+2007", "U+2008",
     "U+2009", "U+200A", "U+2028", "U+2029", "U+202F", "U+205F", "U+3000"}

\* The characters float() skips around a number: the whitespace above
\* without the separators U+001C to U+001F.
FloatSpace == Whitespace \ {"U+001C", "U+001D", "U+001E", "U+001F"}

DigitVal(c) == (CHOOSE i \in 1..10 : c \in DecimalDigits[i]) - 1

Lower(c) ==
    CASE c = "A" -> "a" [] c = "E" -> "e" [] c = "F" -> "f" [] c = "I" -> "i"
      [] c = "N" -> "n" [] c = "T" -> "t" [] c = "Y" -> "y" [] OTHER -> c

LowerAll(s) == [i \in 1..Len(s) |-> Lower(s[i])]

RECURSIVE LStrip(_)
LStrip(s) ==
    IF Len(s) > 0 /\ Head(s) \in Whitespace THEN LStrip(Tail(s)) ELSE s

RECURSIVE RStrip(_)
RStrip(s) ==
    IF Len(s) > 0 /\ s[Len(s)] \in Whitespace
    THEN RStrip(SubSeq(s, 1, Len(s) - 1))
    ELSE s

\* str.strip()
Strip(s) == RStrip(LStrip(s))

\* s without its leading and trailing characters of cs.
StripOf(s, cs) ==
    IF \A i \in 1..Len(s) : s[i] \in cs THEN <<>>
    ELSE SubSeq(s,
                CHOOSE i \in 1..Len(s) :
                    s[i] \notin cs /\ \A k \in 1..(i - 1) : s[k] \in cs,
                CHOOSE j \in 1..Len(s) :
                    s[j] \notin cs /\ \A k \in (j + 1)..Len(s) : s[k] \in cs)

\* Index of the first character of s that is in cs, 0 when there is none.
FirstIndex(s, cs) ==
    IF \E i \in 1..Len(s) : s[i] \in cs
    THEN CHOOSE i \in 1..Len(s) :
            s[i] \in cs /\ \A j \in 1..(i - 1) : s[j] \notin cs
    ELSE 0

IsDigit(c) == c \in Digits

OnlyDigits(s) == SelectSeq(s, IsDigit)

(***************************************************************************)
(* float(str): Python's string-to-double conversion, reduced to what       *)
(* validate_price reads of the result: ValueError, nan, or the sign and    *)
(* whether the double is zero, finite or infinite.                         *)
(***************************************************************************)

\* digitpart ::= digit (["_"] digit)*
IsDigitPart(s) ==
    /\ Len(s) > 0
    /\ \A i \in 1..Len(s) : s[i] \in Digits \cup {"_"}
    /\ s[1] \in Digits
    /\ s[Len(s)] \in Digits
    /\ \A i \in 1..(Len(s) - 1) : ~(s[i] = "_" /\ s[i + 1] = "_")

\* The largest exponent the conversion keeps (MAX_ABS_EXP): an exponent of
\* more than 9 significant digits is read as this value.
MaxAbsExp == 1100000000

\* The most digits the conversion reads (MAX_DIGITS): a literal with more
\* digits after its leading zeros, or more fraction digits, is refused.
MaxDigits == 1000000000

RECURSIVE NatOf(_, _)
NatOf(ds, acc) ==
    IF Len(ds) = 0 THEN acc
    ELSE IF acc = 0 /\ DigitVal(Head(ds)) = 0 THEN NatOf(Tail(ds), 0)
    ELSE IF Len(ds) > 9 THEN MaxAbsExp
    ELSE NatOf(Tail(ds), acc * 10 + DigitVal(Head(ds)))

\* The decimal digits of 2^1024 - 2^970, whose leading digit has exponent
\* 308: a decimal at or above it rounds to infinity.
OverflowDigits ==
    <<1,7,9,7,6,9,3,1,3,4,8,6,2,3,1,5,8,0,7,9,3,7,2,8,
      9,7,1,4,0,5,3,0,3,4,1,5,0,7,9,9,3,4,1,3,2,7,1,0,
      0,3,7,8,2,6,9,3,6,1,7,3,7,7,8,9,8,0,4,4,4,9,6,8,
      2,9,2,7,6,4,7,5,0,9,4,6,6,4,9,0,1,7,9,7,7,5,8,7,
      2,0,7,0,9,6,3,3,0,2,8,6,4,1,6,6,9,2,8,8,7,9,1,0,
      9,4,6,5,5,5,5,4,7,8,5,1,9,4,0,4,0,2,6,3,0,6,5,7,
      4,8,8,6,7,1,5,0,5,8,2,0,6,8,1,9,0,8,9,0,2,0,0,0,
      7,0,8,3,8,3,6,7,6,2,7,3,8,5,4,8,4,5,8,1,7,7,1,1,
      5,3,1,7,6,4,4,7,5,7,3,0,2,7,0,0,6,9,8,5,5,5,7,1,
      3,6,6,9,5,9,6,2,2,8,4,2,9,1,4,8,1,9,8,6,0,8,3,4,
      9,3,6,4,7,5,2,9,2,7,1,9,0,7,4,1,6,8,4,4,4,3,6,5,
      5,1,0,7,0,4,3,4,2,7,1,1,5,5,9,6,9,9,5,0,8,0,9,3,
      0,4,2,8,8,0,1,7,7,9,0,4,1,7,4,4,9,7,7,9,2>>

\* The decimal digits of 2^-1075 = 5^1075 / 10^1075, whose leading digit has
\* exponent -324: a decimal at or below it rounds to zero.
UnderflowDigits ==
    <<2,4,7,0,3,2,8,2,2,9,2,0,6,2,3,2,7,2,0,8,8,2,8,4,
      3,9,6,4,3,4,1,1,0,6,8,6,1,8,2,5,2,9,9,0,1,3,0,7,
      1,6,2,3,8,2,2,1,2,7,9,2,8,4,1,2,5,0,3,3,7,7,5,3,
      6,3,5,1,0,4,3,7,5,9,3,2,6,4,9,9,1,8,1,8,0,8,1,7,
      9,9,6,1,8,9,8,9,8,2,8,2,3,4,7,7,2,2,8,5,8,8,6,5,
      4,6,3,3,2,8,3,5,5,1,7,7,9,6,9,8,9,8,1,9,9,3,8,7,
      3,9,8,0,0,5,3,9,0,9,3,9,0,6,3,1,5,0,3,5,6,5,9,5,
      1,5,5,7,0,2,2,6,3,9,2,2,9,0,8,5,8,3,9,2,4,4,9,1,
      0,5,1,8,4,4,3,5,9,3,1,8,0,2,8,4,9,9,3,6,5,3,6,1,
      5,2,5,0,0,3,1,9,3,7,0,4,5,7,6,7,8,2,4,9,2,1,9,3,
      6,5,6,2,3,6,6,9,8,6,3,6,5,8,4,8,0,7,5,7,0,0,1,5,
      8,5,7,6,9,2,6,9,9,0,3,7,0,6,3,1,1,9,2,8,2,7,9,5,
      5,8,5,5,1,3,3,2,9,2,7,8,3,4,3,3,8,4,0,9,3,5,1,9,
      7,8,0,1,5,5,3,1,2,4,6,5,9,7,2,6,3,5,7,9,5,7,4,6,
      2,2,7,6,6,4,6,5,2,7,2,8,2,7,2,2,0,0,5,6,3,7,4,0,
      0,6,4,8,5,4,9,9,9,7,7,0,9,6,5,9,9,4,7,0,4,5,4,0,
      2,0,8,2,8,1,6,6,2,2,6,2,3,7,8,5,7,3,9,3,4,5,0,7,
      3,6,3,3,9,0,0,7,9,6,7,7,6,1,9,3,0,5,7,7,5,0,6,7,
      4,0,1,7,6,3,2,4,6,7,3,6,0,0,9,6,8,9,5,1,3,4,0,5,
      3,5,5,3,7,4,5,8,5,1,6,6,6,1,1,3,4,2,2,3,7,6,6,6,
      7,8,6,0,4,1,6,2,1,5,9,6,8,0,4,6,1,9,1,4,4,6,7,2,
      9,1,8,4,0,3,0,0,5,3,0,0,5,7,5,3,0,8,4,9,0,4,8,7,
      6,5,3,9,1,7,1,1,3,8,6,5,9,1,6,4,6,2,3,9,5,2,4,9,
      1,2,6,2,3,6,5,3,8,8,1,8,7,9,6,3,6,2,3,9,3,7,3,2,
      8,0,4,2,3,8,9,1,0,1,8,6,7,2,3,4,8,4,9,7,6,6,8,2,
      3,5,0,8,9,8,6,3,3,8,8,5,8,7,9,2,5,6,2,8,3,0,2,7,
      5,5,9,9,5,6,5,7,5,2,4,4,5,5,5,0,7,2,5,5,1,8,9,3,
      1,3,6,9,0,8,3,6,2,5,4,7,7,9,1,8,6,9,4,8,6,6,7,9,
      9,4,9,6,8,3,2,4,0,4,9,7,0,5,8,2,1,0,2,8,5,1,3,1,
      8,5,4,5,1,3,9,6,2,1,3,8,3,7,7,2,2,8,2,6,1,4,5,4,
      3,7,6,9,3,4,1,2,5,3,2,0,9,8,5,9,1,3,2,7,6,6,7,2,
      3,6,3,2,8,1,2,5>>

DigitAt(s, i) == IF i <= Len(s) THEN DigitVal(s[i]) ELSE 0

\* The digit string s, read as the fraction 0.s, exceeds the fraction 0.t
\* of the digits t.
LexGT(s, t) ==
    \E i \in 1..(Len(s) + Len(t)) :
        /\ DigitAt(s, i) > (IF i <= Len(t) THEN t[i] ELSE 0)
        /\ \A j \in 1..(i - 1) :
              DigitAt(s, j) = (IF j <= Len(t) THEN t[j] ELSE 0)

\* ... or falls short of it.
LexLT(s, t) ==
    \E i \in 1..(Len(s) + Len(t)) :
        /\ DigitAt(s, i) < (IF i <= Len(t) THEN t[i] ELSE 0)
        /\ \A j \in 1..(i - 1) :
              DigitAt(s, j) = (IF j <= Len(t) THEN t[j] ELSE 0)

\* floatnumber ::= digitpart ["." [digitpart]] [exponent] | "." digitpart [exponent]
\* The parts of a decimal literal: whether body is one, its digits D (integer
\* digits then fraction digits), the number of integer digits, the decimal
\* exponent E and the index j in D of the first non-zero digit (0: none).
Decimal(body) ==
    LET ePos    == FirstIndex(body, {"e", "E"})
        mant    == IF ePos = 0 THEN body ELSE SubSeq(body, 1, ePos - 1)
        expo    == IF ePos = 0 THEN <<>> ELSE SubSeq(body, ePos + 1, Len(body))
        expSign == Len(expo) > 0 /\ Head(expo) \in {"+", "-"}
        expNeg  == Len(expo) > 0 /\ Head(expo) = "-"
        expDigs == IF expSign THEN Tail(expo) ELSE expo
        dot     == FirstIndex(mant, {"."})
        ip      == IF dot = 0 THEN mant ELSE SubSeq(mant, 1, dot - 1)
        fp      == IF dot = 0 THEN <<>> ELSE SubSeq(mant, dot + 1, Len(mant))
        mantOk  == IF dot = 0
                   THEN IsDigitPart(ip)
                   ELSE /\ Len(ip) = 0 \/ IsDigitPart(ip)
                        /\ Len(fp) = 0 \/ IsDigitPart(fp)
                        /\ Len(ip) > 0 \/ Len(fp) > 0
        expOk   == ePos = 0 \/ IsDigitPart(expDigs)
        D       == OnlyDigits(ip) \o OnlyDigits(fp)
        first   == FirstIndex(D, Digits \ DecimalDigits[1])
        ndigits == IF first = 0 THEN 0 ELSE Len(D) - first + 1
        fraclen == Len(OnlyDigits(fp))
    IN  [ok   |-> /\ mantOk
                  /\ expOk
                  /\ ndigits <= MaxDigits
                  /\ fraclen <= MaxDigits,
         D    |-> D,
         nInt |-> Len(OnlyDigits(ip)),
         E    |-> IF ePos = 0 THEN 0
                  ELSE IF expNeg THEN 0 - NatOf(OnlyDigits(expDigs), 0)
                  ELSE NatOf(OnlyDigits(expDigs), 0),
         j    |-> first]

\* The double nearest to the decimal d, whose leading non-zero digit has
\* decimal exponent p and whose digits from there on are sig: zero, finite
\* or infinite.
RoundToDouble(neg, d, p, sig) ==
    IF ~d.ok THEN [kind |-> "ValueError", neg |-> FALSE]
    ELSE IF d.j = 0 THEN [kind |-> "zero", neg |-> neg]
    ELSE IF p > 308 \/ (p = 308 /\ ~LexLT(sig, OverflowDigits))
         THEN [kind |-> "inf", neg |-> neg]
    ELSE IF p < -324 \/ (p = -324 /\ ~LexGT(sig, UnderflowDigits))
         THEN [kind |-> "zero", neg |-> neg]
    ELSE [kind |-> "finite", neg |-> neg]

FloatOfDecimal(neg, d) ==
    RoundToDouble(neg, d, d.nInt - d.j + d.E, SubSeq(d.D, d.j, Len(d.D)))

FloatOfNumber(neg, body) == FloatOfDecimal(neg, Decimal(body))

\* float(value) for a str value
Float(value) ==
    LET s    == StripOf(value, FloatSpace)
        sign == Len(s) > 0 /\ Head(s) \in {"+", "-"}
        neg  == Len(s) > 0 /\ Head(s) = "-"
        body == IF sign THEN Tail(s) ELSE s
        word == LowerAll(body)
    IN  IF word = <<"n", "a", "n">> THEN [kind |-> "nan", neg |-> neg]
        ELSE IF word = <<"i", "n", "f">>
                \/ word = <<"i", "n", "f", "i", "n", "i", "t", "y">>
             THEN [kind |-> "inf", neg |-> neg]
        ELSE FloatOfNumber(neg, body)

\* price_float <= 0 (false for nan)
LeZero(f) ==
    \/ f.kind = "zero"
    \/ f.kind \in {"finite", "inf"} /\ f.neg

(***************************************************************************)
(* ProductCreateSerializer.validate_<field>                                *)
(***************************************************************************)

\* The Category and Types tables, filled administratively before any request.
CategoryIds == {1}

TypeIds == {1}

Returned(v) == [raised |-> FALSE, value |-> v, code |-> "none"]

Raised(c) == [raised |-> TRUE, value |-> <<>>, code |-> c]

validate_title(value) ==
    IF Len(Strip(value)) < 3 THEN Raised("title_min_3")
    ELSE Returned(Strip(value))

validate_description(value) ==
    IF Len(Strip(value)) < 10 THEN Raised("description_min_10")
    ELSE Returned(Strip(value))

\* The body of validate_price, given price_float = float(value).
PriceCheck(value, price_float) ==
    IF price_float.kind = "ValueError" THEN Raised("price_not_a_number")
    ELSE IF LeZero(price_float) THEN Raised("price_not_positive")
    ELSE Returned(value)

validate_price(value) == PriceCheck(value, Float(value))

validate_category(value) ==
    IF value \notin CategoryIds THEN Raised("category_not_found")
    ELSE Returned(value)

validate_types_product(value) ==
    IF value \notin TypeIds THEN Raised("type_not_found")
    ELSE Returned(value)

(***************************************************************************)
(* ProductCreateSerializer's declared fields (Meta.fields over the Product *)
(* model) and the field validation every serializer runs in is_valid().    *)
(***************************************************************************)

Fields ==
    {"title", "description", "category", "types_product", "price", "is_active",
     "images"}

\* Fields that may be left out: is_active (the model field has a default)
\* and images (required=False).
OptionalFields == {"is_active", "images"}

\* Product.title: CharField(max_length=155)
TitleMaxLength == 155

\* Product.price: CharField(max_length=30)
PriceMaxLength == 30

\* A required text field: blank input is refused, the value is trimmed, and
\* a max_length (0: none) is enforced on the trimmed value.
CharField(data, max_length) ==
    IF Len(Strip(data)) = 0 THEN Raised("blank")
    ELSE IF max_length > 0 /\ Len(Strip(data)) > max_length
         THEN Raised("max_length")
    ELSE Returned(Strip(data))

\* A required foreign key: the id must be a row of the related table.
PrimaryKeyRelatedField(data, ids) ==
    IF data \in ids THEN Returned(data) ELSE Raised("does_not_exist")

\* The inputs a BooleanField reads as True and as False (whole strings).
TrueValues == {"t", "T", "y", "Y", "yes", "YES", "true", "True", "TRUE",
               "on", "On", "ON", "1"}

FalseValues == {"f", "F", "n", "N", "no", "NO", "false", "False", "FALSE",
                "off", "Off", "OFF", "0"}

\* Product.is_active: BooleanField
BooleanField(data) ==
    IF data \in TrueValues THEN Returned(TRUE)
    ELSE IF data \in FalseValues THEN Returned(FALSE)
    ELSE Raised("invalid")

\* Uploads are named by their file name; the files of this set are not
\* images (the image library cannot open them).
NotImages == {<<"x">>}

\* serializers.ImageField()
ImageField(upload) ==
    IF upload \in NotImages THEN Raised("invalid_image") ELSE Returned(upload)

\* serializers.ListField(child=serializers.ImageField()): every upload is
\* validated, and one that fails makes the field fail.
ListField(data) ==
    IF \E k \in 1..Len(data) : ImageField(data[k]).raised
    THEN Raised("invalid_image")
    ELSE Returned([k \in 1..Len(data) |-> ImageField(data[k]).value])

\* One field of the payload: the field's own validation, then
\* validate_<field>, which runs only on a value the field itself accepted.
\* A field left out is an error when required and is skipped otherwise.
run_field(f, data) ==
    LET AndThen(r, validate(_)) == IF r.raised THEN r ELSE validate(r.value)
    IN  IF f \notin data.present
        THEN IF f \in OptionalFields THEN Returned(<<>>) ELSE Raised("required")
        ELSE CASE f = "title" ->
                    AndThen(CharField(data.title, TitleMaxLength), validate_title)
               [] f = "description" ->
                    AndThen(CharField(data.description, 0), validate_description)
               [] f = "price" ->
                    AndThen(CharField(data.price, PriceMaxLength), validate_price)
               [] f = "category" ->
                    AndThen(PrimaryKeyRelatedField(data.category, CategoryIds),
                            validate_category)
               [] f = "types_product" ->
                    AndThen(PrimaryKeyRelatedField(data.types_product, TypeIds),
                            validate_types_product)
               [] f = "is_active" -> BooleanField(data.is_active)
               [] f = "images" -> ListField(data.images)

\* The field -> message mapping of serializer.errors: every field is run,
\* and each one that raises gets an entry.
errors_of(data) ==
    [f \in {g \in Fields : run_field(g, data).raised} |-> run_field(f, data).code]

\* serializer.validated_data of a payload without errors: what create()
\* reads of it here, the title and the images (none when left out).
validated_data(data) ==
    [title  |-> run_field("title", data).value,
     images |-> run_field("images", data).value]

\* serializer.is_valid(raise_exception=True): the 400 response, or no errors.
is_valid(data) ==
    LET errors == errors_of(data)
    IN  IF DOMAIN errors # {}
        THEN [status |-> 400, errors |-> errors]
        ELSE [status |-> 200, errors |-> errors]

(***************************************************************************)
(* Entity Store.  db is the sequence of committed rows in commit order;    *)
(* every ORM statement runs in autocommit mode, so each insert is          *)
(* committed, and visible to every other request, as soon as it returns.   *)
(* Ids are auto-increment primary keys per table; no row is ever deleted.  *)
(* `at` is the minute of the commit.                                       *)
(***************************************************************************)

IsProductRow(r) == r.kind = "product"

IsImageRow(r) == r.kind = "image"

\* Product.objects...all()
ProductRows(d) == SelectSeq(d, IsProductRow)

\* ProductImage.objects.all()
ImageRows(d) == SelectSeq(d, IsImageRow)

\* ProductImage rows of one product, by primary key.
ImagesOf(rows, pid) ==
    LET OfPid(r) == r.kind = "image" /\ r.product = pid
    IN  SelectSeq(rows, OfPid)

NumStr(n) ==
    CASE n = 1 -> "1" [] n = 2 -> "2" [] n = 3 -> "3" [] n = 4 -> "4"
      [] n = 5 -> "5" [] n = 6 -> "6" [] n = 7 -> "7" [] n = 8 -> "8"
      [] OTHER -> "9"

\* The name the file storage saves an upload under: the uploaded name, or,
\* when a stored file already has it, the name with a suffix that makes it
\* unique (the row id stands for the storage's random suffix).
StoredName(d, name, id) ==
    IF \E k \in 1..Len(d) : d[k].kind = "image" /\ d[k].val = name
    THEN name \o <<"_", NumStr(id)>>
    ELSE name

\* Product.objects.create(**validated_data)
InsertProduct(d, title, t) ==
    Append(d, [kind |-> "product", id |-> Len(ProductRows(d)) + 1,
               product |-> Len(ProductRows(d)) + 1, val |-> title, at |-> t])

\* ProductImage.objects.create(product=product, image=image)
InsertImage(d, pid, image, t) ==
    Append(d, [kind |-> "image", id |-> Len(ImageRows(d)) + 1,
               product |-> pid,
               val |-> StoredName(d, image, Len(ImageRows(d)) + 1), at |-> t])

(***************************************************************************)
(* ProductSerializer / ProductImageSerializer                              *)
(***************************************************************************)

\* image.url of the file storage
ImageUrl(name) == <<"/media/product/">> \o name

\* request.build_absolute_uri(url)
BuildAbsoluteUri(url) == <<"http://host">> \o url

\* ProductImageSerializer.get_image_url; every serializer here is built with
\* the request in its context.
get_image_url(img) ==
    IF Len(img.val) > 0 THEN BuildAbsoluteUri(ImageUrl(img.val)) ELSE <<>>

\* ProductSerializer.get_first_image: obj.images.first() is a query of its
\* own, ordered by primary key, against the store as it is now (d).
\* <<>> stands for None.
get_first_image(pid, d) ==
    LET imgs == ImagesOf(d, pid)
    IN  IF Len(imgs) > 0 /\ Len(imgs[1].val) > 0
        THEN BuildAbsoluteUri(ImageUrl(imgs[1].val))
        ELSE <<>>

\* The read representation of one Product: `images` from the image rows the
\* caller fetched (pre), first_image from the store d.
ProductRep(row, pre, d) ==
    LET imgs == ImagesOf(pre, row.id)
    IN  [id          |-> row.id,
         title       |-> row.val,
         first_image |-> get_first_image(row.id, d),
         images      |-> [k \in 1..Len(imgs) |->
                            [id        |-> imgs[k].id,
                             image_url |-> get_image_url(imgs[k]),
                             product   |-> imgs[k].product]]]

\* The list payload of a store read in one instant.
Serialize(d) ==
    LET ps == ProductRows(d)
    IN  [k \in 1..Len(ps) |-> ProductRep(ps[k], ImageRows(d), d)]

(***************************************************************************)
(* Cache Layer: django.core.cache.cache.  The same cache holds the         *)
(* 'product_list' key and the pages cache_page stores, one per request     *)
(* variant (URL and varied headers).                                       *)
(***************************************************************************)

\* 60 * 5 seconds, in minutes: cache_page(60 * 5)
CachePageTTL == 5

\* 60 * 5 seconds, in minutes: cache.set(cache_key, response.data, 60 * 5)
ProductListTTL == 5

ReqKeys == {"v1", "v2"}

CacheKeys == {"product_list"} \cup ReqKeys

NoEntry == [has |-> FALSE, value |-> <<>>, expires |-> 0]

\* cache.get(key): the value, or None once the entry has expired
CacheGet(c, key, t) ==
    IF c[key].has /\ c[key].expires > t
    THEN [hit |-> TRUE, value |-> c[key].value]
    ELSE [hit |-> FALSE, value |-> <<>>]

\* cache.set(key, value, ttl)
CacheSet(c, key, value, ttl, t) ==
    [c EXCEPT ![key] = [has |-> TRUE, value |-> value, expires |-> t + ttl]]

\* cache.delete(key)
CacheDelete(c, key) == [c EXCEPT ![key] = NoEntry]

(***************************************************************************)
(* Request payloads                                                        *)
(***************************************************************************)

RECURSIVE Repeat(_, _)
Repeat(c, n) == IF n = 0 THEN <<>> ELSE <<c>> \o Repeat(c, n - 1)

Payload(title, description, price, category, types_product, is_active, images) ==
    [present       |-> Fields,
     title         |-> title,
     description   |-> description,
     price         |-> price,
     category      |-> category,
     types_product |-> types_product,
     is_active     |-> is_active,
     images        |-> images]

\* Uploaded files, by name, in the order a request submits them (not the
\* order of their names).
Uploads == <<<<"b">>, <<"a">>, <<"d">>, <<"c">>>>

\* The image lists a request may carry: none, or the first n uploads.
ImageLists == {SubSeq(Uploads, 1, n) : n \in 0..MaxImages}

GoodPayload(images) ==
    Payload(<<" ", "m", "u", "g">>, Repeat("d", 10), <<"1", "9", ".", "9", "9">>,
            1, 1, "true", images)

\* A payload validation rejects (title of two characters).
BadPayload ==
    Payload(<<"m", "u">>, Repeat("d", 10), <<"5">>, 1, 1, "true", <<>>)

\* A payload validation rejects (an upload that is not an image).
BadUploadPayload == GoodPayload(<<Uploads[1]>> \o <<<<"x">>>>)

RequestPayloads ==
    {GoodPayload(s) : s \in ImageLists} \cup {BadPayload, BadUploadPayload}

(***************************************************************************)
(* Request slots.  Each slot runs one request at a time; slots run         *)
(* concurrently, one statement (store query, store insert, cache           *)
(* operation) per step.                                                    *)
(***************************************************************************)

Procs == {1, 2}

Idle ==
    [pc |-> "idle", kind |-> "idle", key |-> "none", data |-> BadPayload,
     qs |-> <<>>, pre |-> <<>>, out |-> <<>>, i |-> 0, pid |-> 0, after |-> 0]

NoResp ==
    [kind |-> "none", status |-> 0, body |-> <<>>, errors |-> <<>>, at |-> 0,
     pid |-> 0, after |-> 0, cfail |-> FALSE, data |-> BadPayload]

\* The handler of slot p returns: the response is sent, the slot is free.
Respond(p, status, body, errors, cfail) ==
    /\ resp' = [kind |-> proc[p].kind, status |-> status, body |-> body,
                errors |-> errors, at |-> now, pid |-> proc[p].pid,
                after |-> proc[p].after, cfail |-> cfail,
                data |-> proc[p].data]
    /\ proc' = [proc EXCEPT ![p] = Idle]
    /\ last201' = IF status = 201 THEN proc[p].pid ELSE 0

Goto(p, pc) == [proc EXCEPT ![p].pc = pc]

\* A request arrives at slot p.  `after` records the product of a creation
\* that returned 201 as the last event before this request, with no other
\* request running.
Arrive(p, kind, key, data) ==
    /\ proc[p].pc = "idle"
    /\ proc' = [q \in Procs |->
                  IF q = p
                  THEN [Idle EXCEPT !.pc = IF kind = "GET" THEN "page_get"
                                                           ELSE "validate",
                                    !.kind = kind, !.key = key, !.data = data,
                                    !.after =
                                       IF \A r \in Procs : proc[r].pc = "idle"
                                       THEN last201 ELSE 0]
                  ELSE [proc[q] EXCEPT !.after = 0]]
    /\ resp' = NoResp
    /\ last201' = 0
    /\ UNCHANGED <<vin, vout, db, cache, now, submitted, invalidated>>

(***************************************************************************)
(* GET product-list: cache_page(60 * 5) around ProductAPIView.list         *)
(***************************************************************************)

StartGet(p, k) == Arrive(p, "GET", k, BadPayload)

\* cache_page, on the way in: a stored page for this request variant is
\* returned without calling the view.
CachePageGet(p) ==
    /\ proc[p].pc = "page_get"
    /\ LET page == CacheGet(cache, proc[p].key, now)
       IN  IF page.hit
           THEN Respond(p, 200, page.value, <<>>, FALSE)
           ELSE proc' = Goto(p, "list_get") /\ UNCHANGED <<resp, last201>>
    /\ UNCHANGED <<vin, vout, db, cache, now, submitted, invalidated>>

\* cached_data = cache.get('product_list'); on a hit, Response(cached_data)
ListCacheGet(p) ==
    /\ proc[p].pc = "list_get"
    /\ LET cached_data == CacheGet(cache, "product_list", now)
       IN  proc' = IF cached_data.hit
                   THEN [proc EXCEPT ![p].pc = "page_set",
                                     ![p].out = cached_data.value]
                   ELSE Goto(p, "query")
    /\ UNCHANGED <<vin, vout, db, cache, now, resp, submitted, invalidated, last201>>

\* super().list(): the queryset is evaluated, first the Product rows ...
QueryProducts(p) ==
    /\ proc[p].pc = "query"
    /\ proc' = [proc EXCEPT ![p].qs = ProductRows(db),
                            ![p].pc = IF Len(ProductRows(db)) = 0
                                      THEN "list_set" ELSE "prefetch"]
    /\ UNCHANGED <<vin, vout, db, cache, now, resp, submitted, invalidated, last201>>

\* ... then the prefetch of their images, a second query
PrefetchImages(p) ==
    /\ proc[p].pc = "prefetch"
    /\ LET Fetched(r) ==
              /\ r.kind = "image"
              /\ \E k \in 1..Len(proc[p].qs) : proc[p].qs[k].id = r.product
       IN  proc' = [proc EXCEPT ![p].pre = SelectSeq(db, Fetched),
                                ![p].i = 1,
                                ![p].pc = "serialize"]
    /\ UNCHANGED <<vin, vout, db, cache, now, resp, submitted, invalidated, last201>>

\* serializer.data: one Product at a time; get_first_image queries the store
SerializeProduct(p) ==
    /\ proc[p].pc = "serialize"
    /\ LET i == proc[p].i
       IN  proc' = [proc EXCEPT
                      ![p].out = Append(@, ProductRep(proc[p].qs[i], proc[p].pre, db)),
                      ![p].i = i + 1,
                      ![p].pc = IF i = Len(proc[p].qs) THEN "list_set"
                                ELSE "serialize"]
    /\ UNCHANGED <<vin, vout, db, cache, now, resp, submitted, invalidated, last201>>

\* cache.set(cache_key, response.data, 60 * 5)
ListCacheSet(p) ==
    /\ proc[p].pc = "list_set"
    /\ cache' = CacheSet(cache, "product_list", proc[p].out, ProductListTTL, now)
    /\ proc' = Goto(p, "page_set")
    /\ UNCHANGED <<vin, vout, db, now, resp, submitted, invalidated, last201>>

\* cache_page, on the way out: the 200 response is stored for its variant
CachePageSet(p) ==
    /\ proc[p].pc = "page_set"
    /\ cache' = CacheSet(cache, proc[p].key, proc[p].out, CachePageTTL, now)
    /\ Respond(p, 200, proc[p].out, <<>>, FALSE)
    /\ UNCHANGED <<vin, vout, db, now, submitted, invalidated>>

(***************************************************************************)
(* POST product-create: ProductCreateView.create                           *)
(***************************************************************************)

StartPost(p, d) ==
    /\ Len(ProductRows(db))
         + Cardinality({q \in Procs : proc[q].pc \in {"validate", "create_product"}})
         < MaxProducts
    /\ Arrive(p, "POST", "none", d)

\* serializer.is_valid(raise_exception=True)
Validate(p) ==
    /\ proc[p].pc = "validate"
    /\ LET v == is_valid(proc[p].data)
       IN  IF v.status = 400
           THEN Respond(p, 400, <<>>, v.errors, FALSE)
           ELSE proc' = Goto(p, "create_product") /\ UNCHANGED <<resp, last201>>
    /\ UNCHANGED <<vin, vout, db, cache, now, submitted, invalidated>>

\* create() with cache.delete('product_list') run right after the Product row
\* is inserted, before the images are.
CreateProductInvalidatingEarly(p) ==
    /\ proc[p].pc = "create_product"
    /\ LET vd == validated_data(proc[p].data)
       IN  /\ db' = InsertProduct(db, vd.title, now)
           /\ submitted' = Append(submitted, vd.images)
           /\ proc' = [proc EXCEPT ![p].pid = Len(ProductRows(db)) + 1,
                                   ![p].i = 1,
                                   ![p].pc = IF Len(vd.images) = 0
                                             THEN "invalidate"
                                             ELSE "create_image"]
    /\ cache' = CacheDelete(cache, "product_list")
    /\ UNCHANGED <<vin, vout, now, resp, invalidated, last201>>

\* serializer.save() -> create(): product = Product.objects.create(...)
CreateProduct(p) ==
    /\ proc[p].pc = "create_product"
    /\ LET vd == validated_data(proc[p].data)
       IN  /\ db' = InsertProduct(db, vd.title, now)
           /\ submitted' = Append(submitted, vd.images)
           /\ proc' = [proc EXCEPT ![p].pid = Len(ProductRows(db)) + 1,
                                   ![p].i = 1,
                                   ![p].pc = IF Len(vd.images) = 0
                                             THEN "invalidate"
                                             ELSE "create_image"]
    /\ UNCHANGED <<vin, vout, cache, now, resp, invalidated, last201>>

\* for image in images_data: ProductImage.objects.create(...)
CreateImage(p) ==
    /\ proc[p].pc = "create_image"
    /\ LET images_data == validated_data(proc[p].data).images
           i == proc[p].i
       IN  /\ db' = InsertImage(db, proc[p].pid, images_data[i], now)
           /\ proc' = [proc EXCEPT ![p].i = i + 1,
                                   ![p].pc = IF i = Len(images_data)
                                             THEN "invalidate"
                                             ELSE "create_image"]
    /\ UNCHANGED <<vin, vout, cache, now, resp, submitted, invalidated, last201>>

\* cache.delete('product_list')
InvalidateCache(p) ==
    /\ proc[p].pc = "invalidate"
    /\ cache' = CacheDelete(cache, "product_list")
    /\ invalidated' = invalidated \cup {proc[p].pid}
    /\ proc' = Goto(p, "created")
    /\ UNCHANGED <<vin, vout, db, now, resp, submitted, last201>>

\* Response(ProductSerializer(product, ...).data, status=201)
RespondCreated(p) ==
    /\ proc[p].pc = "created"
    /\ LET row == ProductRows(db)[proc[p].pid]
       IN  Respond(p, 201, <<ProductRep(row, ImageRows(db), db)>>, <<>>, FALSE)
    /\ UNCHANGED <<vin, vout, db, cache, now, submitted, invalidated>>

(***************************************************************************)
(* Failures of the collaborators.  Neither handler catches an exception,   *)
(* so the framework answers 500 and nothing already committed is undone.   *)
(***************************************************************************)

\* The positions at which a handler is about to call cache.get, cache.set or
\* cache.delete.
CacheSteps == {"list_get", "list_set", "invalidate"}

\* The cache backend is unavailable: the handler's cache operation raises.
CacheFault(p) ==
    /\ proc[p].pc \in CacheSteps
    /\ Respond(p, 500, <<>>, <<>>, TRUE)
    /\ UNCHANGED <<vin, vout, db, cache, now, submitted, invalidated>>

\* ProductImage.objects.create raises (storage or store failure).
ImageFault(p) ==
    /\ proc[p].pc = "create_image"
    /\ Respond(p, 500, <<>>, <<>>, FALSE)
    /\ UNCHANGED <<vin, vout, db, cache, now, submitted, invalidated>>

(***************************************************************************)
(* The clock.  Entries that expire at the new minute are dropped, which    *)
(* no cache.get can tell from their staying until overwritten.             *)
(***************************************************************************)

Tick ==
    /\ now < MaxTime
    /\ now' = now + 1
    /\ cache' = [k \in CacheKeys |->
                   IF cache[k].has /\ cache[k].expires <= now + 1
                   THEN NoEntry ELSE cache[k]]
    /\ UNCHANGED <<vin, vout, db, proc, resp, submitted, invalidated, last201>>

(***************************************************************************)
(* Specifications                                                          *)
(***************************************************************************)

NoInput == [op |-> "none", data |-> BadPayload]

NoOutput == [done |-> FALSE, raised |-> FALSE, errors |-> <<>>]

InitRequests ==
    /\ db = <<>>
    /\ cache = [k \in CacheKeys |-> NoEntry]
    /\ now = 0
    /\ proc = [p \in Procs |-> Idle]
    /\ resp = NoResp
    /\ submitted = <<>>
    /\ invalidated = {}
    /\ last201 = 0

Init ==
    /\ vin = NoInput
    /\ vout = NoOutput
    /\ InitRequests

\* One statement of the handler running in slot p.
Step(p) ==
    \/ CachePageGet(p)
    \/ ListCacheGet(p)
    \/ QueryProducts(p)
    \/ PrefetchImages(p)
    \/ SerializeProduct(p)
    \/ ListCacheSet(p)
    \/ CachePageSet(p)
    \/ Validate(p)
    \/ CreateProduct(p)
    \/ CreateImage(p)
    \/ InvalidateCache(p)
    \/ RespondCreated(p)

Next ==
    \/ \E p \in Procs : StartGet(p, "v1")
    \/ \E p \in Procs : \E d \in RequestPayloads : StartPost(p, d)
    \/ \E p \in Procs : Step(p)

\* Requests served concurrently within one minute (no cache entry expires),
\* all GETs of one request variant, collaborators always available.
Spec == Init /\ [][Next]_vars

NextFault ==
    \/ Next
    \/ \E p \in Procs : CacheFault(p)
    \/ \E p \in Procs : ImageFault(p)

\* The same, with cache and store failures.
SpecFault == Init /\ [][NextFault]_vars

\* Minutes pass between requests (a request is short against a minute).
TickBetweenRequests ==
    /\ \A p \in Procs : proc[p].pc = "idle"
    /\ Tick

NextTimed ==
    \/ TickBetweenRequests
    \/ \E p \in Procs : \E k \in ReqKeys : StartGet(p, k)
    \/ \E p \in Procs : \E n \in {0, 1} : StartPost(p, GoodPayload(SubSeq(Uploads, 1, n)))
    \/ \E p \in Procs : Step(p)

\* GETs of several request variants and creations of products with at most
\* one image, served concurrently over several minutes, collaborators always available.
SpecTimed == Init /\ [][NextTimed]_vars

(***************************************************************************)
(* Validation on its own: validate_price applied to a price string, and    *)
(* is_valid applied to a payload.                                          *)
(***************************************************************************)

PriceAlphabet == {"0", "5", ".", "-", "e", " ", "a", "n", "i", "f"}

PriceExamples ==
    {<<"-", "5">>, <<"a", "b", "c">>, <<"0">>, <<"1", "9", ".", "9", "9">>,
     <<"1", "e", "-", "4", "0", "0">>, <<"1", "e", "4", "0", "0">>,
     <<"+", "1", "_", "0">>, <<"I", "n", "f", "i", "n", "i", "t", "y">>,
     <<"U+0663">>, <<"U+FF15", ".", "U+0967">>, <<"\f", "5">>,
     <<"U+00A0", "5", "U+3000">>, <<"U+001C", "5">>,
     <<"2", "e", "-", "3", "2", "4">>, <<"3", "e", "-", "3", "2", "4">>,
     <<"1", ".", "8", "e", "3", "0", "8">>,
     <<"1", "e", "1", "2", "3", "4", "5", "6", "7", "8", "9", "0">>}

PriceStrings ==
    PriceExamples \cup UNION {[1..n -> PriceAlphabet] : n \in 0..MaxPriceLen}

TitleInputs ==
    {<<>>, <<" ", " ", " ">>, <<"m", "u">>, <<" ", "m", "u", " ">>,
     <<"m", "u", "g">>, <<" ", "m", "u", "g", " ">>, <<"m", " ", "u">>,
     <<"\f", "m", "u", "U+00A0">>}

DescriptionInputs ==
    {<<>>, Repeat("d", 9), <<" ">> \o Repeat("d", 9), Repeat("d", 10),
     <<" ">> \o Repeat("d", 10) \o <<" ">>, Repeat("d", 9) \o <<"U+001C">>}

PayloadPrices ==
    {<<>>, <<"-", "5">>, <<"a", "b", "c">>, <<"0">>, <<"1", "9", ".", "9", "9">>,
     <<"n", "a", "n">>, <<"i", "n", "f">>, <<" ", "5", " ">>, <<"U+0663">>}

\* Payloads with every field present, and the same with one field left out.
ValidationPayloads ==
    {[Payload(ti, de, pr, ca, ty, ia, im) EXCEPT !.present = Fields \ out] :
        ti \in TitleInputs, de \in DescriptionInputs, pr \in PayloadPrices,
        ca \in {1, 2}, ty \in {1, 2}, ia \in {"true", "maybe"},
        im \in {<<>>, <<Uploads[1]>>, <<Uploads[1]>> \o <<<<"x">>>>},
        out \in {{}} \cup {{f} : f \in Fields}}

InitValidate ==
    /\ vin \in {[op |-> "validate_price",
                 data |-> [BadPayload EXCEPT !.price = s]] : s \in PriceStrings}
               \cup {[op |-> "is_valid", data |-> d] : d \in ValidationPayloads}
    /\ vout = NoOutput
    /\ InitRequests

\* ProductCreateSerializer().validate_price(value)
RunValidatePrice ==
    /\ vin.op = "validate_price"
    /\ ~vout.done
    /\ vout' = [done |-> TRUE,
                raised |-> validate_price(vin.data.price).raised,
                errors |-> <<>>]
    /\ UNCHANGED <<vin, reqvars>>

\* ProductCreateSerializer(data=...).is_valid(); serializer.errors
RunIsValid ==
    /\ vin.op = "is_valid"
    /\ ~vout.done
    /\ vout' = [done |-> TRUE,
                raised |-> is_valid(vin.data).status = 400,
                errors |-> is_valid(vin.data).errors]
    /\ UNCHANGED <<vin, reqvars>>

NextValidate == RunValidatePrice \/ RunIsValid

SpecValidate == InitValidate /\ [][NextValidate]_vars

(***************************************************************************)
(* What the specification calls a valid value of each field.               *)
(***************************************************************************)

\* s is a decimal literal (optionally signed, surrounded by blanks) whose
\* value is a strictly positive, finite number.
DenotesPositiveNumber(s) ==
    LET st   == StripOf(s, FloatSpace)
        sign == Len(st) > 0 /\ Head(st) \in {"+", "-"}
        body == IF sign THEN Tail(st) ELSE st
    IN  /\ ~(Len(st) > 0 /\ Head(st) = "-")
        /\ Decimal(body).ok
        /\ Decimal(body).j # 0

\* The price rule as the specification words it, read on the parsed value:
\* the string parses and the value is greater than zero.
ParsesAndPositive(s) == Float(s).kind \in {"finite", "inf"} /\ ~Float(s).neg

\* The fields the specification gives a validation rule.
RuleFields == {"title", "description", "price", "category", "types_product"}

ViolatesRule(f, data) ==
    \/ f \notin data.present
    \/ f = "title" /\ Len(Strip(data.title)) < 3
    \/ f = "description" /\ Len(Strip(data.description)) < 10
    \/ f = "price" /\ ~ParsesAndPositive(data.price)
    \/ f = "category" /\ data.category \notin CategoryIds
    \/ f = "types_product" /\ data.types_product \notin TypeIds

\* C6: product-create validation does not short-circuit: the 400 error
\* mapping has an entry for every field of the payload that violates its rule.
C6_EveryViolatedRuleReported ==
    (vin.op = "is_valid" /\ vout.done) =>
        \A f \in RuleFields :
            ViolatesRule(f, vin.data) => (vout.raised /\ f \in DOMAIN vout.errors)

\* The part of C6 that does not rest on the price rule: title, description,
\* category and types_product are reported whatever the other fields hold.
NonPriceRulesReported ==
    (vin.op = "is_valid" /\ vout.done) =>
        \A f \in RuleFields \ {"price"} :
            ViolatesRule(f, vin.data) => (vout.raised /\ f \in DOMAIN vout.errors)

\* C7: validate_price accepts a price string if and only if it parses as a
\* number and that number is strictly positive.
C7_PriceAcceptedIffPositiveNumber ==
    (vin.op = "validate_price" /\ vout.done) =>
        (~vout.raised <=> DenotesPositiveNumber(vin.data.price))

\* The examples the specification lists for C7 are decided as it says.
PriceExamplesDecided ==
    (vin.op = "validate_price" /\ vout.done) =>
        /\ vin.data.price \in {<<"-", "5">>, <<"a", "b", "c">>, <<"0">>} => vout.raised
        /\ vin.data.price = <<"1", "9", ".", "9", "9">> => ~vout.raised

(***************************************************************************)
(* Properties of the request handlers                                      *)
(***************************************************************************)

\* The ids of the products of a list payload, in order.
Ids(payload) == [k \in 1..Len(payload) |-> payload[k].id]

Contains(payload, pid) == \E k \in 1..Len(payload) : payload[k].id = pid

\* A GET product-list was answered 200.
ListServed == resp.kind = "GET" /\ resp.status = 200

\* C1: after a POST product-create has returned 201, the very next GET
\* product-list (no other request in between) returns a payload that
\* contains the new Product.
C1_NextListShowsCreated ==
    (ListServed /\ resp.after # 0) => Contains(resp.body, resp.after)

\* C2: the products a GET product-list returns are the store's products as
\* they were at some instant no more than 5 minutes before the response,
\* whatever cache layers and request variants served it.  (Product k exists
\* from the minute of its commit on; the list of the first m products was
\* the store's until product m + 1 was committed.)
C2_ListAtMostFiveMinutesStale ==
    ListServed =>
        LET m  == Len(resp.body)
            ps == ProductRows(db)
        IN  /\ m <= Len(ps)
            /\ Ids(resp.body) = [k \in 1..m |-> k]
            /\ m > 0 => ps[m].at <= resp.at
            /\ m < Len(ps) => ps[m + 1].at >= resp.at - ProductListTTL

\* C3: product creation with images is all-or-nothing: when persisting an
\* image fails, the store holds neither the new Product nor any of its
\* ProductImages once the request has ended.
C3_FailedCreationLeavesNothing ==
    (resp.kind = "POST" /\ resp.status = 500 /\ ~resp.cfail) =>
        \A k \in 1..Len(db) : db[k].product # resp.pid

\* Every product of the payload carries all the images its creation submitted.
FullyImaged(payload) ==
    \A k \in 1..Len(payload) :
        Len(payload[k].images) = Len(submitted[payload[k].id])

\* C4: no GET product-list response, and no value stored under the
\* product_list key, contains a Product with fewer images than its
\* creation submitted.
C4_NoPartiallyImagedProductVisible ==
    /\ ListServed => FullyImaged(resp.body)
    /\ cache["product_list"].has => FullyImaged(cache["product_list"].value)

\* C5: a request during which a cache operation fails still succeeds: GET
\* product-list answers 200 and a valid POST product-create answers 201.
C5_CacheFailureDoesNotFailRequest ==
    resp.cfail =>
        \/ resp.kind = "GET" /\ resp.status = 200
        \/ resp.kind = "POST" /\ resp.status = 201

\* All rows of the creation running in slot p are persisted.
Persisted(p) ==
    /\ proc[p].pid \in 1..Len(ProductRows(db))
    /\ Len(ImagesOf(db, proc[p].pid)) = Len(proc[p].data.images)

\* C8: a step of a POST product-create changes the cache only by deleting
\* the product_list entry, and only once the Product and all its
\* ProductImages are persisted; a creation answered 400 or 500 has not run
\* the deletion.
C8_CacheDeletedOnlyAfterPersist ==
    [][/\ \A p \in Procs :
            (proc[p].kind = "POST" /\ proc'[p] # proc[p]) =>
                \/ cache' = cache
                \/ /\ Persisted(p)
                   /\ cache' = CacheDelete(cache, "product_list")
       /\ (resp'.kind = "POST" /\ resp'.status \in {400, 500}) =>
                resp'.pid \notin invalidated']_vars

\* A creation with images has persisted them all and deleted a product_list
\* entry that a GET had stored (the page of that GET is still cached).
C8_Witness ==
    \E p \in Procs :
        /\ proc[p].pc = "created"
        /\ Len(proc[p].data.images) = MaxImages
        /\ cache["v1"].has
        /\ ~cache["product_list"].has

\* The file was stored from the upload `name` (under a unique suffix or not).
StoredFrom(stored, name) ==
    Len(stored) >= Len(name) /\ SubSeq(stored, 1, Len(name)) = name

\* first_image is the URL of the first image submitted, or absent when none was.
FirstImageOk(url, images, rows) ==
    IF Len(images) = 0 THEN url = <<>>
    ELSE /\ Len(rows) > 0
         /\ StoredFrom(rows[1].val, images[1])
         /\ url = BuildAbsoluteUri(ImageUrl(rows[1].val))

\* ProductImages are persisted in submission order, and the first_image of a
\* created Product, in the 201 response and whenever it is computed from the
\* store once the creation has finished, is the URL of the first image
\* submitted, or absent when none was submitted.
FirstImageFromStore ==
    /\ \A pid \in 1..Len(submitted) :
          LET rows == ImagesOf(db, pid)
          IN  /\ Len(rows) <= Len(submitted[pid])
              /\ \A k \in 1..Len(rows) :
                    /\ StoredFrom(rows[k].val, submitted[pid][k])
                    /\ k > 1 => rows[k - 1].id < rows[k].id
    /\ (resp.kind = "POST" /\ resp.status = 201) =>
          /\ Len(ImagesOf(db, resp.pid)) = Len(resp.data.images)
          /\ FirstImageOk(resp.body[1].first_image, resp.data.images,
                          ImagesOf(db, resp.pid))
    /\ \A pid \in invalidated :
          FirstImageOk(get_first_image(pid, db), submitted[pid], ImagesOf(db, pid))

\* A creation with MaxImages images was answered 201 with a first_image.
FirstImageServed ==
    /\ resp.kind = "POST" /\ resp.status = 201
    /\ Len(resp.data.images) = MaxImages
    /\ MaxImages > 1
    /\ resp.pid \in invalidated
    /\ Len(resp.body[1].first_image) > 0

\* C9: ProductImages are persisted in submission order, and the first_image
\* of a created Product, in the 201 response and in later reads (a GET
\* product-list that arrives once the creation has returned 201), is the URL
\* of the first image submitted, or absent when none was submitted.
C9_FirstImageIsFirstSubmitted ==
    /\ FirstImageFromStore
    /\ (ListServed /\ resp.after # 0) =>
          \A k \in 1..Len(resp.body) :
              resp.body[k].id = resp.after =>
                  FirstImageOk(resp.body[k].first_image, submitted[resp.after],
                               ImagesOf(db, resp.after))

\* C10: once a creation has run cache.delete('product_list'), any value
\* present under the product_list key contains the created Product.
C10_NoStaleListAfterInvalidation ==
    \A pid \in invalidated :
        cache["product_list"].has => Contains(cache["product_list"].value, pid)

====
